---- MODULE Spec2Model ----
(***************************************************************************)
(* Model of junior.py: the daily product selection run (main), the Shopee  *)
(* search harvester (shopee_search), the similarity key helpers and the    *)
(* JSON state store (load_state / save_state).                             *)
(*                                                                         *)
(* Numbers: sold is an integer, rating is kept in tenths (4.5 -> 45).      *)
(* Python's None is written None (-1); no scraped number is negative.      *)
(* A title is the sequence of its whitespace separated raw tokens.         *)
(***************************************************************************)
EXTENDS Integers, Sequences, FiniteSets, TLC

\* ---------------------------------------------------------------- bounds
\* TOTAL_DAYS of the model (the environment default is 30)
TotalDays == 2
\* largest PER_DAY the configuration is drawn from (the default is 3)
MaxPerDay == 2
\* limit passed to shopee_search (main passes 50)
Limit == 3
\* how often the store is damaged from outside in one behaviour
MaxDamage == 1

\* ------------------------------------------------------ program constants
\* default of SOLD_MIN
SoldMin == 100
\* default of RATING_MIN, in tenths
RatingMin == 45
\* default k of top_keywords
TopK == 6
\* a token must be longer than this to count as a keyword
MinWordLen == 2

None == -1

\* ------------------------------------------------------------ text helpers
\* str.lower() followed by the removal of every non-word character, on one
\* token; a token made only of punctuation becomes empty.
LowerStrip(w) ==
  CASE w = "Kit" -> "kit"
    [] w = "Cama" -> "cama"
    [] w = "Pet" -> "pet"
    [] w = "!" -> ""
    [] w = "Coleira" -> "coleira"
    [] w = "Led" -> "led"
    [] w = "Brinquedo" -> "brinquedo"
    [] w = "Racao" -> "racao"
    [] OTHER -> w

\* len() of a normalized token
WordLen(w) ==
  CASE w = "kit" -> 3
    [] w = "cama" -> 4
    [] w = "pet" -> 3
    [] w = "" -> 0
    [] w = "coleira" -> 7
    [] w = "led" -> 3
    [] w = "brinquedo" -> 9
    [] w = "racao" -> 5
    [] w = "de" -> 2
    [] OTHER -> 0

\* the members of STOPWORDS that occur in the titles of the model
STOPWORDS == {"de", "kit"}

RECURSIVE MapLower(_)
MapLower(s) ==
  IF s = <<>> THEN <<>> ELSE <<LowerStrip(Head(s))>> \o MapLower(Tail(s))

NonEmptyWord(w) == w # ""

\* normalize_text: lower-case, punctuation to blanks, blanks collapsed and
\* trimmed; on token sequences the empty tokens disappear.
normalize_text(s) == SelectSeq(MapLower(s), NonEmptyWord)

IsKeyword(w) == w \notin STOPWORDS /\ WordLen(w) > MinWordLen

FirstK(s, k) == IF Len(s) <= k THEN s ELSE SubSeq(s, 1, k)

\* top_keywords: the hyphen joined keywords, or the normalized title when no
\* keyword survives.  joined tells the two string shapes apart.
top_keywords(title) ==
  LET words == FirstK(SelectSeq(normalize_text(title), IsKeyword), TopK)
  IN  IF words # <<>> THEN [joined |-> TRUE, words |-> words]
      ELSE [joined |-> FALSE, words |-> normalize_text(title)]

similarity_key(category, title) == <<category, top_keywords(title)>>

\* ------------------------------------------------------------- the inputs
\* What a product page can be scraped to (shopee_product_details): url,
\* title, sold and rating; price and reviews play no part in the selection.
\* The same url can be scraped to different values on different fetches.
Products ==
  { [url |-> "u1", title |-> <<"Racao">>,                  sold |-> 50,   rating |-> 49],
    [url |-> "u5", title |-> <<"Kit", "de">>,              sold |-> None, rating |-> 48],
    [url |-> "u2", title |-> <<"Coleira", "Led">>,         sold |-> 150,  rating |-> 40],
    [url |-> "u3", title |-> <<"Cama", "Pet">>,            sold |-> 300,  rating |-> 48],
    [url |-> "u4", title |-> <<"Kit", "cama", "Pet", "!">>, sold |-> 300, rating |-> None],
    [url |-> "u5", title |-> <<"Brinquedo">>,              sold |-> 150,  rating |-> 49] }

Urls == { p.url : p \in Products }

\* the values CATEGORIES is drawn from
CategoryLists == { <<"Pets">>, <<"Moda", "Pets">>, <<"Pets", "Pets">> }

RECURSIVE DistinctSeqs(_, _)
\* the sequences of at most n pairwise distinct members of S
DistinctSeqs(S, n) ==
  IF n = 0 THEN { <<>> }
  ELSE { <<>> } \cup
       UNION { { <<x>> \o t : t \in DistinctSeqs(S \ {x}, n - 1) } : x \in S }

\* the url lists the search page can yield: deduplicated, cut at limit
UrlLists == DistinctSeqs(Urls, Limit)

\* ------------------------------------------------------------ state store
\* state.json: missing, not JSON, or a JSON object that holds any of the
\* three keys.
MissingStore ==
  [kind |-> "missing", hasDay |-> FALSE, day_index |-> 0,
   hasIds |-> FALSE, used_product_ids |-> {},
   hasKeys |-> FALSE, used_similarity_keys |-> {}]

GarbageStore == [MissingStore EXCEPT !.kind = "garbage"]

SeedStore ==
  [kind |-> "ok", hasDay |-> TRUE, day_index |-> 0,
   hasIds |-> TRUE, used_product_ids |-> {},
   hasKeys |-> TRUE, used_similarity_keys |-> {}]

\* load_state raises unless the file exists and parses
LoadFails(file) == file.kind # "ok"

\* state.get("day_index", 0)
GetDayIndex(state) == IF state.hasDay THEN state.day_index ELSE 0

\* set(state.get("used_product_ids", []))
GetUsedIds(state) == IF state.hasIds THEN state.used_product_ids ELSE {}

\* set(state.get("used_similarity_keys", []))
GetUsedKeys(state) == IF state.hasKeys THEN state.used_similarity_keys ELSE {}

\* NextDayIndex that skips a day
NextDayIndexMut(state) == GetDayIndex(state) + 2

\* day_index = int(state.get("day_index", 0)) + 1
NextDayIndex(state) == GetDayIndex(state) + 1

\* ProjectFinished one day late
ProjectFinishedMut(d, total_days) == d > total_days + 1

\* if day_index > total_days: print the notice and return
ProjectFinished(d, total_days) == d > total_days

\* the three assignments to state followed by save_state
SavedState(state, d, ids, keys) ==
  [state EXCEPT !.hasDay = TRUE, !.day_index = d,
                !.hasIds = TRUE, !.used_product_ids = ids,
                !.hasKeys = TRUE, !.used_similarity_keys = keys]

\* -------------------------------------------------------------- selection
\* PassesSold without the comparison with sold_min
PassesSoldMut(p, sold_min) == ~ (p.sold = None \/ p.sold = 0)

\* not (not p.get("sold") or p["sold"] < sold_min)
PassesSold(p, sold_min) ==
  ~ (p.sold = None \/ p.sold = 0 \/ p.sold < sold_min)

\* not (p.get("rating") is not None and p["rating"] < rating_min)
PassesRating(p, rating_min) ==
  ~ (p.rating # None /\ p.rating < rating_min)

\* FreshId without the look into used_ids
FreshIdMut(p, ids) == TRUE

\* pid not in used_ids
FreshId(p, ids) == p.url \notin ids

\* sk not in used_keys
FreshKey(sk, keys) == sk \notin keys

\* the candidate built from a surviving result
Candidate(p, cat) ==
  [url |-> p.url, title |-> p.title, sold |-> p.sold, rating |-> p.rating,
   category |-> cat, product_id |-> p.url,
   similarity_key |-> similarity_key(cat, p.title)]

RECURSIVE FilterResults(_, _, _, _)
\* the loop over results that builds candidates
FilterResults(res, cat, ids, keys) ==
  IF res = <<>> THEN <<>>
  ELSE LET p == Head(res)
           rest == FilterResults(Tail(res), cat, ids, keys)
       IN  IF /\ PassesSold(p, SoldMin)
              /\ PassesRating(p, RatingMin)
              /\ FreshId(p, ids)
              /\ FreshKey(similarity_key(cat, p.title), keys)
           THEN <<Candidate(p, cat)>> \o rest
           ELSE rest

RECURSIVE InsertBySold(_, _)
\* puts c behind every member that sold at least as much
InsertBySold(c, s) ==
  IF s = <<>> THEN <<c>>
  ELSE IF Head(s).sold >= c.sold THEN <<Head(s)>> \o InsertBySold(c, Tail(s))
       ELSE <<c>> \o s

\* SortBySold that leaves the discovery order
SortBySoldMut(s) == s

RECURSIVE SortBySold(_)
\* candidates.sort(key=sold, reverse=True): descending and stable
SortBySold(s) ==
  IF s = <<>> THEN <<>>
  ELSE InsertBySold(s[Len(s)], SortBySold(SubSeq(s, 1, Len(s) - 1)))

\* TooSimilar without the look into picks
TooSimilarMut(cand, pk) == FALSE

\* any(c["similarity_key"] == cand["similarity_key"] for c in picks)
TooSimilar(cand, pk) ==
  \E i \in 1..Len(pk) : pk[i].similarity_key = cand.similarity_key

RECURSIVE SelectPicks(_, _, _)
\* the loop over the sorted candidates that grows picks
SelectPicks(pk, cands, per_day) ==
  IF cands = <<>> \/ Len(pk) >= per_day THEN pk
  ELSE IF TooSimilar(Head(cands), pk) THEN SelectPicks(pk, Tail(cands), per_day)
       ELSE SelectPicks(Append(pk, Head(cands)), Tail(cands), per_day)

\* Insufficient that lets a short batch through
InsufficientMut(pk, per_day) == FALSE

\* if len(picks) < per_day: raise RuntimeError
Insufficient(pk, per_day) == Len(pk) < per_day

\* the row handed to the sink for a pick
Row(d, p) ==
  [day |-> d, url |-> p.url, category |-> p.category,
   similarity_key |-> p.similarity_key]

\* ------------------------------------------------------------------ state
VARIABLES
  store,       \* state.json
  categories,  \* CATEGORIES
  per_day,     \* PER_DAY
  pc,          \* where main() is; "idle" between two runs
  state,       \* the dict load_state returned
  day_index, used_ids, used_keys, picks,   \* locals of main()
  ci,          \* index of cat in categories
  urls, out,   \* locals of shopee_search
  results, candidates, rows,
  outcome,     \* how the last run ended
  harvests,    \* shopee_search calls of this run
  copies,      \* generate_copy calls of this run
  sent,        \* rows the sink received in this run
  wrote,       \* save_state was called in this run
  before,      \* state.json as it was when this run started
  kept,        \* state.json as the program last left it
  damages,     \* how often state.json was damaged from outside
  pastUrls, pastKeys   \* urls and keys picked by earlier successful runs

vars == <<store, categories, per_day, pc, state, day_index, used_ids,
          used_keys, picks, ci, urls, out, results, candidates, rows,
          outcome, harvests, copies, sent, wrote, before, kept,
          damages, pastUrls, pastKeys>>

config == <<categories, per_day>>
history == <<kept, damages, pastUrls, pastKeys>>

NoOutcome == [kind |-> "none", step |-> "none", found |-> 0]
Success == [kind |-> "success", step |-> "save", found |-> 0]
Notice == [kind |-> "notice", step |-> "load", found |-> 0]
Failure(step, n) == [kind |-> "error", step |-> step, found |-> n]

Init ==
  /\ store = SeedStore
  /\ categories \in CategoryLists
  /\ per_day \in 1..MaxPerDay
  /\ pc = "idle"
  /\ state = SeedStore
  /\ day_index = 0 /\ used_ids = {} /\ used_keys = {} /\ picks = <<>>
  /\ ci = 1 /\ urls = <<>> /\ out = <<>>
  /\ results = <<>> /\ candidates = <<>> /\ rows = <<>>
  /\ outcome = NoOutcome
  /\ harvests = 0 /\ copies = 0 /\ sent = <<>> /\ wrote = FALSE
  /\ before = SeedStore /\ kept = SeedStore /\ damages = 0
  /\ pastUrls = {} /\ pastKeys = {}

\* the locals and the per-run counters as a run finds them
FreshRun ==
  /\ picks' = <<>> /\ ci' = 1 /\ urls' = <<>> /\ out' = <<>>
  /\ results' = <<>> /\ candidates' = <<>> /\ rows' = <<>>
  /\ harvests' = 0 /\ copies' = 0 /\ sent' = <<>> /\ wrote' = FALSE
  /\ before' = store

\* main() starts and load_state raises
LoadError ==
  /\ pc = "idle" /\ LoadFails(store)
  /\ FreshRun
  /\ outcome' = Failure("load", 0)
  /\ UNCHANGED <<store, config, pc, state, day_index, used_ids, used_keys,
                 history>>

\* main() starts on a finished project: the notice, then return
RunFinished ==
  /\ pc = "idle" /\ ~ LoadFails(store)
  /\ ProjectFinished(NextDayIndex(store), TotalDays)
  /\ FreshRun
  /\ state' = store
  /\ day_index' = NextDayIndex(store)
  /\ outcome' = Notice
  /\ UNCHANGED <<store, config, pc, used_ids, used_keys, history>>

\* main() starts and reaches the category loop
RunStart ==
  /\ pc = "idle" /\ ~ LoadFails(store)
  /\ ~ ProjectFinished(NextDayIndex(store), TotalDays)
  /\ FreshRun
  /\ state' = store
  /\ day_index' = NextDayIndex(store)
  /\ used_ids' = GetUsedIds(store)
  /\ used_keys' = GetUsedKeys(store)
  /\ outcome' = NoOutcome
  /\ pc' = "loop"
  /\ UNCHANGED <<store, config, history>>

\* the search page request of shopee_search raises: nothing catches it
SearchFail ==
  /\ pc = "loop" /\ ci <= Len(categories) /\ Len(picks) < per_day
  /\ harvests' = harvests + 1
  /\ outcome' = Failure("search", Len(picks))
  /\ pc' = "idle"
  /\ UNCHANGED <<store, config, state, day_index, used_ids, used_keys, picks,
                 ci, urls, out, results, candidates, rows, copies, sent,
                 wrote, before, history>>

\* the search page is fetched and parsed into the urls to resolve; the
\* results and candidates of the category before are gone
SearchOk ==
  /\ pc = "loop" /\ ci <= Len(categories) /\ Len(picks) < per_day
  /\ harvests' = harvests + 1
  /\ urls' \in UrlLists
  /\ out' = <<>>
  /\ results' = <<>>
  /\ candidates' = <<>>
  /\ pc' = "fetch"
  /\ UNCHANGED <<store, config, state, day_index, used_ids, used_keys, picks,
                 ci, rows, outcome, copies, sent,
                 wrote, before, history>>

\* shopee_product_details raises for the next url: except, continue
DetailFail ==
  /\ pc = "fetch" /\ urls # <<>>
  /\ urls' = Tail(urls)
  /\ UNCHANGED <<store, config, pc, state, day_index, used_ids, used_keys,
                 picks, ci, out, results, candidates, rows, outcome,
                 harvests, copies, sent, wrote, before, history>>

\* shopee_product_details returns the record of the next url
DetailOk ==
  /\ pc = "fetch" /\ urls # <<>>
  /\ \E p \in Products :
       /\ p.url = Head(urls)
       /\ out' = Append(out, p)
  /\ urls' = Tail(urls)
  /\ UNCHANGED <<store, config, pc, state, day_index, used_ids, used_keys,
                 picks, ci, results, candidates, rows, outcome,
                 harvests, copies, sent, wrote, before, history>>

\* shopee_search returns; main filters the results and sorts the candidates
FilterAndSort ==
  /\ pc = "fetch" /\ urls = <<>>
  /\ results' = out
  /\ candidates' = SortBySold(FilterResults(out, categories[ci], used_ids,
                                            used_keys))
  /\ out' = <<>>
  /\ pc' = "select"
  /\ UNCHANGED <<store, config, state, day_index, used_ids, used_keys, picks,
                 ci, urls, rows, outcome, harvests, copies, sent,
                 wrote, before, history>>

\* the loop over the candidates, then the next category
Select ==
  /\ pc = "select"
  /\ picks' = SelectPicks(picks, candidates, per_day)
  /\ ci' = ci + 1
  /\ pc' = "loop"
  /\ UNCHANGED <<store, config, state, day_index, used_ids, used_keys, urls,
                 out, results, candidates, rows, outcome, harvests, copies,
                 sent, wrote, before, history>>

\* the category loop ends with too few picks: RuntimeError
RaiseInsufficient ==
  /\ pc = "loop" /\ (ci > Len(categories) \/ Len(picks) >= per_day)
  /\ Insufficient(picks, per_day)
  /\ outcome' = Failure("insufficient", Len(picks))
  /\ pc' = "idle"
  /\ UNCHANGED <<store, config, state, day_index, used_ids, used_keys, picks,
                 ci, urls, out, results, candidates, rows, harvests, copies,
                 sent, wrote, before, history>>

\* the category loop ends with a full batch
BatchReady ==
  /\ pc = "loop" /\ (ci > Len(categories) \/ Len(picks) >= per_day)
  /\ ~ Insufficient(picks, per_day)
  /\ pc' = "copy"
  /\ UNCHANGED <<store, config, state, day_index, used_ids, used_keys, picks,
                 ci, urls, out, results, candidates, rows, outcome, harvests,
                 copies, sent, wrote, before, history>>

\* generate_copy raises for the next pick
CopyFail ==
  /\ pc = "copy" /\ Len(rows) < Len(picks)
  /\ copies' = copies + 1
  /\ outcome' = Failure("copy", Len(picks))
  /\ pc' = "idle"
  /\ UNCHANGED <<store, config, state, day_index, used_ids, used_keys, picks,
                 ci, urls, out, results, candidates, rows, harvests, sent,
                 wrote, before, history>>

\* one turn of the loop over picks: the copy, the row, the used sets
CopyOk ==
  /\ pc = "copy" /\ Len(rows) < Len(picks)
  /\ LET p == picks[Len(rows) + 1]
     IN  /\ rows' = Append(rows, Row(day_index, p))
         /\ used_ids' = used_ids \cup {p.product_id}
         /\ used_keys' = used_keys \cup {p.similarity_key}
  /\ copies' = copies + 1
  /\ UNCHANGED <<store, config, pc, state, day_index, picks, ci, urls, out,
                 results, candidates, outcome, harvests, sent, wrote, before,
                 history>>

\* the sink raises after it took some of the rows
SinkFail ==
  /\ pc = "copy" /\ Len(rows) = Len(picks)
  /\ \E k \in 0..(Len(rows) - 1) : sent' = SubSeq(rows, 1, k)
  /\ outcome' = Failure("sink", Len(picks))
  /\ pc' = "idle"
  /\ UNCHANGED <<store, config, state, day_index, used_ids, used_keys, picks,
                 ci, urls, out, results, candidates, rows, harvests, copies,
                 wrote, before, history>>

\* the sink takes every row
SinkOk ==
  /\ pc = "copy" /\ Len(rows) = Len(picks)
  /\ sent' = rows
  /\ pc' = "save"
  /\ UNCHANGED <<store, config, state, day_index, used_ids, used_keys, picks,
                 ci, urls, out, results, candidates, rows, outcome, harvests,
                 copies, wrote, before, history>>

\* the state is updated and save_state rewrites state.json
Save ==
  /\ pc = "save"
  /\ store' = SavedState(state, day_index, used_ids, used_keys)
  /\ kept' = store'
  /\ wrote' = TRUE
  /\ pastUrls' = pastUrls \cup { picks[i].url : i \in 1..Len(picks) }
  /\ pastKeys' = pastKeys \cup { picks[i].similarity_key : i \in 1..Len(picks) }
  /\ outcome' = Success
  /\ pc' = "idle"
  /\ UNCHANGED <<config, state, day_index, used_ids, used_keys, picks, ci,
                 urls, out, results, candidates, rows, harvests, copies,
                 sent, before, damages>>

Next ==
  \/ RunFinished \/ RunStart
  \/ SearchFail \/ SearchOk \/ DetailFail \/ DetailOk
  \/ FilterAndSort \/ Select \/ RaiseInsufficient \/ BatchReady
  \/ CopyFail \/ CopyOk \/ SinkFail \/ SinkOk \/ Save

Spec == Init /\ [][Next]_vars

\* ------------------------------------------- the store under outside damage
\* Between two runs state.json is deleted, overwritten with something that
\* is not JSON, or loses one of its keys.
Damaged(file) ==
  { MissingStore, GarbageStore,
    [file EXCEPT !.hasDay = FALSE, !.day_index = 0],
    [file EXCEPT !.hasIds = FALSE, !.used_product_ids = {}],
    [file EXCEPT !.hasKeys = FALSE, !.used_similarity_keys = {}] }

Damage ==
  /\ pc = "idle" /\ store.kind = "ok" /\ damages < MaxDamage
  /\ store' \in Damaged(store)
  /\ damages' = damages + 1
  /\ UNCHANGED <<config, pc, state, day_index, used_ids, used_keys, picks,
                 ci, urls, out, results, candidates, rows, outcome, harvests,
                 copies, sent, wrote, before, kept, pastUrls, pastKeys>>

NextStore == Next \/ LoadError \/ Damage

SpecStore == Init /\ [][NextStore]_vars

\* ----------------------------------------------------------------- claims
PickUrls == { picks[i].url : i \in 1..Len(picks) }
PickKeys == { picks[i].similarity_key : i \in 1..Len(picks) }

\* C1: no url and no similarity_key picked by an earlier successful run is
\* picked again; every pick is outside the used sets the run loaded, and the
\* picks of a successful run are in the persisted sets afterwards.
C1_CrossRunDedup ==
  /\ outcome.kind # "success" =>
       /\ PickUrls \cap pastUrls = {}
       /\ PickKeys \cap pastKeys = {}
  /\ PickUrls \cap GetUsedIds(before) = {}
  /\ PickKeys \cap GetUsedKeys(before) = {}
  /\ outcome.kind = "success" =>
       /\ PickUrls \subseteq store.used_product_ids
       /\ PickKeys \subseteq store.used_similarity_keys

\* a later run harvests an admissible product an earlier run picked, and
\* picks something else
C1_Witness ==
  /\ pc = "loop" /\ picks # <<>>
  /\ \E i \in 1..Len(results) :
       /\ results[i].url \in pastUrls
       /\ PassesSold(results[i], SoldMin)
       /\ PassesRating(results[i], RatingMin)

\* C2: within the picks of one run no two picks have the same url
C2_UniqueUrls ==
  \A i, j \in 1..Len(picks) : i # j => picks[i].url # picks[j].url

\* C3: at every point of the category loop the picks have pairwise
\* distinct similarity keys
C3_DistinctKeys ==
  \A i, j \in 1..Len(picks) :
    i # j => picks[i].similarity_key # picks[j].similarity_key

\* a candidate was passed over for a pick of the same key while the batch
\* was not full
C3_Witness ==
  /\ pc = "loop" /\ Len(picks) < per_day /\ picks # <<>>
  /\ \E j \in 1..Len(candidates) :
       /\ candidates[j].url \notin PickUrls
       /\ candidates[j].similarity_key \in PickKeys

C5_FinishedRunIsNoOp ==
  GetDayIndex(before) = TotalDays =>
    /\ pc = "idle" /\ outcome = Notice
    /\ harvests = 0 /\ picks = <<>> /\ copies = 0 /\ sent = <<>>
    /\ ~ wrote /\ store = before

C5_Witness ==
  /\ outcome.kind = "notice" /\ GetDayIndex(before) = TotalDays
  /\ pastUrls # {}

\* C6: no failed fetch ends the run
C6_FetchFailureNeverAborts ==
  ~ (outcome.kind = "error" /\ outcome.step = "search")

\* C7: a run gets to the selection only with the state the program last
\* left in the store, never with defaults in place of what the store held
C7_NoRunOnDamagedStore ==
  pc # "idle" =>
    /\ before.kind = "ok"
    /\ day_index = kept.day_index + 1
    /\ GetUsedIds(before) = kept.used_product_ids
    /\ GetUsedKeys(before) = kept.used_similarity_keys

C9_Thresholds ==
  /\ \A i \in 1..Len(picks) :
       /\ picks[i].sold # None /\ picks[i].sold >= SoldMin
       /\ (picks[i].rating = None \/ picks[i].rating >= RatingMin)
  /\ pc = "select" =>
       \A i \in 1..Len(results) :
         ( /\ results[i].rating = None
           /\ results[i].sold # None /\ results[i].sold >= SoldMin
           /\ results[i].url \notin used_ids
           /\ similarity_key(categories[ci], results[i].title) \notin used_keys )
         => \E j \in 1..Len(candidates) :
              /\ candidates[j].url = results[i].url
              /\ candidates[j].rating = None

\* a product without rating was picked from results that also held one
\* without sold and one under sold_min
C9_Witness ==
  /\ pc = "loop"
  /\ \E i \in 1..Len(picks) : picks[i].rating = None
  /\ \E i \in 1..Len(results) : results[i].sold = None
  /\ \E i \in 1..Len(results) : results[i].sold # None /\ results[i].sold < SoldMin

\* the place of the candidate with url u in the candidates
CandPos(u) == CHOOSE j \in 1..Len(candidates) : candidates[j].url = u
\* the place of the result with url u in the results
ResPos(u) == CHOOSE j \in 1..Len(results) : results[j].url = u

\* the candidates of a category are its surviving results, most sold first,
\* equal sold in the order of the results
C10_Ranked ==
  pc = "select" =>
    /\ \A j \in 1..Len(candidates) :
         \E i \in 1..Len(results) : results[i].url = candidates[j].url
    /\ \A j, k \in 1..Len(candidates) :
         j < k => \/ candidates[j].sold > candidates[k].sold
                  \/ /\ candidates[j].sold = candidates[k].sold
                     /\ ResPos(candidates[j].url) < ResPos(candidates[k].url)

\* the single category scenario: sold 50, 150, 300 with ratings 4.9, 4.0,
\* 4.8 in any order, nothing used, per_day 1
C10_Scenario ==
  /\ categories = <<"Pets">> /\ per_day = 1
  /\ pc = "loop" /\ ci = 2
  /\ GetUsedIds(before) = {} /\ GetUsedKeys(before) = {}
  /\ Len(results) = 3
  /\ { <<results[i].sold, results[i].rating>> : i \in 1..3 } =
       { <<50, 49>>, <<150, 40>>, <<300, 48>> }

\* after a single category the picks are the most sold candidates: one
\* left out sold no more than every pick, or has the key of a pick that
\* sold at least as much
C10_Best ==
  /\ (Len(categories) = 1 /\ pc = "loop" /\ ci = 2) =>
       \A j \in 1..Len(candidates) :
         candidates[j].url \notin PickUrls =>
           \/ \A i \in 1..Len(picks) : picks[i].sold >= candidates[j].sold
           \/ \E i \in 1..Len(picks) :
                /\ picks[i].similarity_key = candidates[j].similarity_key
                /\ picks[i].sold >= candidates[j].sold
  /\ C10_Scenario => (Len(picks) = 1 /\ picks[1].sold = 300)

\* one turn of the selection: picks grows by candidates in their order, and
\* a candidate is left out only for a full batch or a pick of its key
C10_SelectStep ==
  pc = "select" =>
    LET n == Len(picks)
        m == Len(picks')
        new == { picks'[i].url : i \in (n + 1)..m }
    IN  /\ m >= n /\ SubSeq(picks', 1, n) = picks
        /\ \A i \in (n + 1)..m :
             /\ \E j \in 1..Len(candidates) : candidates[j] = picks'[i]
             /\ \A k \in (i + 1)..m :
                  CandPos(picks'[i].url) < CandPos(picks'[k].url)
        /\ \A j \in 1..Len(candidates) :
             candidates[j].url \notin new =>
               LET taken == n + Cardinality({ u \in new : CandPos(u) < j })
               IN  \/ taken >= per_day
                   \/ \E i \in 1..taken :
                        picks'[i].similarity_key = candidates[j].similarity_key

\* C10: within a category the survivors are taken most sold first, ties in
\* discovery order, and one is passed over only for a full batch or an
\* accepted pick of the same key; a single category run picks the most sold
\* admissible candidates.
C10_SoldRanking ==
  [](C10_Ranked /\ C10_Best) /\ [][C10_SelectStep]_vars

\* the scenario ended with its single pick, the results not most sold first
C10_Witness ==
  /\ C10_Scenario /\ Len(picks) = 1
  /\ results[1].sold < results[3].sold

====
